---- MODULE Spec2Model ----
(***************************************************************************)
(* The database connection lifecycle of src/database/initDatabase.js:      *)
(* the module-level state db / isConnecting / retryCount, the supervisor   *)
(* connectDB (guard, configuration check, createPool, probe, publish,      *)
(* retry scheduling, process.exit) and the facade executeQuery.            *)
(*                                                                         *)
(* Node runs one callback to completion before the next one starts, so an  *)
(* action is what one callback does between two suspension points (await   *)
(* of network I/O or a timer).  A promise that is already settled when it  *)
(* is awaited continues in the microtasks of the same callback, so it is   *)
(* part of the same action.  The one place where the model stops inside a  *)
(* callback is between line 29 (isConnecting = true) and line 31 (the      *)
(* configuration check): `running` names the owner whose callback is       *)
(* stopped there, and no other action is enabled until it has gone on.     *)
(*                                                                         *)
(* Spec is that module while no signal is delivered; SpecShutdown adds its *)
(* SIGINT handler.  SpecApp is the connection code of the second variant   *)
(* of src/app.js (lines 204-328) and SpecP2 that of src/unnamed/part_002   *)
(* (lines 32-97): each of these server files has its own connectDB, retry  *)
(* timers, unhandledRejection handler and keep-alive interval.             *)
(***************************************************************************)
EXTENDS Integers, FiniteSets

VARIABLES
    env,            \* the required environment fields that are set
    db,             \* line 20: NULL, UNDEFINED or the id of a pool
    isConnecting,   \* line 21
    retryCount,     \* line 22
    exited,         \* process.exit(1) has been called (line 72)
    sigint,         \* the SIGINT handler of lines 104-110: "none", "ending"
                    \* (waiting for db.end()) or "exited" (process.exit(0))
    ended,          \* the pool db.end() was called on, or NULL
    attempts,       \* connectDB calls that passed the guard of line 26
    npools,         \* pools created by mysql.createPool (line 38)
    everConnected,  \* some attempt has reached line 53
    cpc,            \* per owner: where its connectDB chain is
    cpool,          \* per owner: the pool its attempt is probing
    running,        \* the owner stopped between line 29 and line 31
    qpc,            \* per caller: where its executeQuery call is
    qpool,          \* per caller: the pool its statement runs on
    ev,             \* what the last step did for its owner (see Ev)
    timers,         \* server files: pending setTimeout(connectDB, ...) timers
    acts,           \* server files: the connectDB attempts awaiting I/O
    kpc,            \* server files: where the keep-alive callback is
    kpool           \* server files: the pool the keep-alive is pinging

vars == <<env, db, isConnecting, retryCount, exited, sigint, ended,
          attempts, npools, everConnected, cpc, cpool, running,
          qpc, qpool, ev, timers, acts, kpc, kpool>>

\* the state that only the server files (src/app.js lines 204-491 and
\* src/unnamed/part_002, which carry their own connectDB) use
serverVars == <<timers, acts, kpc, kpool>>

supervisorVars == <<db, isConnecting, retryCount, exited, attempts, npools,
                    everConnected>>
chainVars == <<cpc, cpool, running>>
callerVars == <<qpc, qpool>>

\* ------------------------------------------------------------------ bounds

NumCallers == 2
MaxAttempts == 6
MaxServerAttempts == 5
MaxTimers == 2
MaxP2Attempts == 11
MaxInFlight == 2

\* --------------------------------------------------------------- constants

MAX_RETRIES == 5
P2_MAX_RETRIES == 10
BaseDelay == 1000
CapDelay == 30000
connectionLimit == 1

MathMin(a, b) == IF a <= b THEN a ELSE b

NULL == 0
UNDEFINED == 0 - 1

Callers == 1 .. NumCallers
INIT == 0
Owners == {INIT} \cup Callers

RequiredEnv == {"MYSQLHOST", "MYSQLUSER", "MYSQLPASSWORD", "MYSQLDATABASE"}

ErrorCodes == {"PROTOCOL_CONNECTION_LOST", "ETIMEDOUT", "ECONNRESET",
               "ER_OTHER"}

\* ----------------------------------------------------- the code's conditions

\* a connectDB without line 26
GuardNever == FALSE

\* line 26: if (isConnecting) return;
Guard == isConnecting

\* line 31 without the test of MYSQLPASSWORD
ConfigMissingNoPassword ==
    \E f \in RequiredEnv \ {"MYSQLPASSWORD"} : f \notin env

\* line 31: some required variable is not set
ConfigMissing == \E f \in RequiredEnv : f \notin env

\* line 64 with <= for <
RetryAllowedOffByOne(n) == n <= MAX_RETRIES

\* line 64: retryCount < MAX_RETRIES, on the incremented counter
RetryAllowed(n) == n < MAX_RETRIES

\* a catch block that reconnects on every error
IsConnectionLostAny(code) == TRUE

\* lines 85-87: the codes that mean the connection was lost
IsConnectionLost(code) ==
    \/ code = "PROTOCOL_CONNECTION_LOST"
    \/ code = "ETIMEDOUT"
    \/ code = "ECONNRESET"

\* line 65 with the exponent taken before line 62 increments retryCount
RetryDelayBeforeIncrement(n) == MathMin(BaseDelay * 2 ^ (n - 1), CapDelay)

\* line 65: Math.min(1000 * Math.pow(2, retryCount), 30000)
RetryDelay(n) == MathMin(BaseDelay * 2 ^ n, CapDelay)

\* a catch block without line 61
FlagAfterFailureKept == isConnecting

\* line 61: isConnecting = false
FlagAfterFailure == FALSE

\* a success path without line 55
CountAfterSuccessKept == retryCount

\* line 55: retryCount = 0
CountAfterSuccess == 0

\* line 79: !db is true of null and of undefined
NoDb == db = NULL \/ db = UNDEFINED

\* db = pool of line 53 while the ping of line 49 is still to be sent
ProbeDoneEarly(o) == cpc[o] \in {"getconn", "ping"}

\* lines 49-53: the attempt of owner o has sent its ping and waits for it
ProbeDone(o) == cpc[o] = "ping"

InFlight == {o \in Owners : cpc[o] \in {"entered", "getconn", "ping"}}
Timers == {o \in Owners : cpc[o] = "timer"}

\* What a step did, kept for one step.  who: the owner whose callback ran;
\* connect: whether it called connectDB and how line 26 answered ("noop":
\* returned undefined, "entered": went on to line 29); err: the error code a
\* db.execute rejected with; outcome: how the owner's executeQuery call
\* ended in this step ("rows", "error": err was thrown to the caller,
\* "TypeError": db.execute was read from undefined); nexec and nreq: the
\* db.execute calls and the connectDB calls of the catch block that the
\* ended call had made; delay: the retryDelay of line 65 when the step
\* scheduled a retry timer, else 0; leak: the pool whose probe handle the
\* step left checked out for good (line 50 was not reached), else NULL;
\* orphan: the pool whose getConnection() the step left pending with nobody
\* waiting for it (the 30 s timer won the race), else NULL; read: the value
\* of db that a request handler of a server file called .query on in the
\* step, else NULL.
Ev(who, connect, err, outcome, n, r) ==
    [who |-> who, connect |-> connect, err |-> err, outcome |-> outcome,
     nexec |-> n, nreq |-> r, delay |-> 0, leak |-> NULL, orphan |-> NULL,
     read |-> NULL]

NoEvent == Ev(UNDEFINED, "none", "none", "none", 0, 0)

\* lines 11-12: a pool hands out at most connectionLimit connections and
\* queues the other statements (waitForConnections), so the connections of
\* pool p that run a statement number at most connectionLimit
StatementsOn(p) ==
    {c \in Callers : qpc[c] \in {"exec1", "exec2"} /\ qpool[c] = p}

CheckedOut(p) == MathMin(connectionLimit, Cardinality(StatementsOn(p)))

RECURSIVE CheckedOutUpTo(_)
CheckedOutUpTo(p) ==
    IF p = 0 THEN 0 ELSE CheckedOut(p) + CheckedOutUpTo(p - 1)

\* the connections of all the pools created so far that run a statement
LiveConnections == CheckedOutUpTo(npools)

\* db.execute calls made so far by the call of caller c
Executions(c) ==
    IF qpc[c] \in {"exec1", "conn2"} THEN 1
    ELSE IF qpc[c] = "exec2" THEN 2
    ELSE 0

\* connectDB calls made so far by the catch block of the call of caller c
Requests(c) == IF qpc[c] \in {"conn2", "exec2"} THEN 1 ELSE 0

\* ---------------------------------------------------------------- Init

Init ==
    /\ env \in SUBSET RequiredEnv
    /\ db = NULL
    /\ isConnecting = FALSE
    /\ retryCount = 0
    /\ exited = FALSE
    /\ sigint = "none"
    /\ ended = NULL
    /\ attempts = 0
    /\ npools = 0
    /\ everConnected = FALSE
    /\ cpc = [o \in Owners |-> IF o = INIT THEN "start" ELSE "idle"]
    /\ cpool = [o \in Owners |-> NULL]
    /\ running = UNDEFINED
    /\ qpc = [c \in Callers |-> "idle"]
    /\ qpool = [c \in Callers |-> NULL]
    /\ ev = NoEvent
    /\ timers = 0
    /\ acts = {}
    /\ kpc = "idle"
    /\ kpool = NULL

\* The module has been loaded, the process is alive and no callback is
\* stopped in mid-run.
Ready ==
    /\ ~exited
    /\ sigint # "exited"
    /\ running = UNDEFINED
    /\ cpc[INIT] # "start"

\* ------------------------------------------------ connectDB, lines 25-75

\* lines 26-29: the call passes the guard and sets the flag
Enter(o) ==
    /\ attempts < MaxAttempts
    /\ isConnecting' = TRUE
    /\ attempts' = attempts + 1
    /\ cpc' = [cpc EXCEPT ![o] = "entered"]
    /\ running' = o
    /\ UNCHANGED <<retryCount, exited, npools, everConnected, cpool>>

\* lines 59-73: the catch block; `orphan` is the pool whose getConnection()
\* is still pending when the block runs, or NULL
FailWith(o, orphan) ==
    /\ isConnecting' = FlagAfterFailure
    /\ retryCount' = retryCount + 1
    /\ IF RetryAllowed(retryCount + 1)
       THEN /\ cpc' = [cpc EXCEPT ![o] = "timer"]
            /\ exited' = exited
       ELSE /\ cpc' = [cpc EXCEPT ![o] = "idle"]
            /\ exited' = TRUE
    /\ cpool' = [cpool EXCEPT ![o] = NULL]
    /\ running' = UNDEFINED
    /\ ev' = [NoEvent EXCEPT
                !.delay = IF RetryAllowed(retryCount + 1)
                          THEN RetryDelay(retryCount + 1) ELSE 0,
                !.leak = IF cpc[o] = "ping" THEN cpool[o] ELSE NULL,
                !.orphan = orphan]
    /\ UNCHANGED <<db, attempts, npools, everConnected>>
    /\ UNCHANGED callerVars

\* lines 59-73, entered by an error thrown or a promise rejected in the try
\* block
Fail(o) == FailWith(o, NULL)

\* line 98: the call made when the module is loaded
InitialConnect ==
    /\ ~exited
    /\ running = UNDEFINED
    /\ cpc[INIT] = "start"
    /\ IF Guard
       THEN /\ cpc' = [cpc EXCEPT ![INIT] = "idle"]
            /\ ev' = Ev(INIT, "noop", "none", "none", 0, 0)
            /\ UNCHANGED <<isConnecting, retryCount, exited, attempts, npools,
                           everConnected, cpool, running>>
       ELSE /\ Enter(INIT)
            /\ ev' = Ev(INIT, "entered", "none", "none", 0, 0)
    /\ UNCHANGED <<env, sigint, ended, serverVars, db>>
    /\ UNCHANGED callerVars

\* lines 31-46: the configuration check, then createPool and getConnection
Validate(o) ==
    /\ ~exited
    /\ running = o
    /\ cpc[o] = "entered"
    /\ IF ConfigMissing
       THEN Fail(o)
       ELSE /\ npools' = npools + 1
            /\ cpool' = [cpool EXCEPT ![o] = attempts]
            /\ cpc' = [cpc EXCEPT ![o] = "getconn"]
            /\ running' = UNDEFINED
            /\ ev' = NoEvent
            /\ UNCHANGED <<db, isConnecting, retryCount, exited, attempts,
                           everConnected>>
            /\ UNCHANGED callerVars
    /\ UNCHANGED <<env, sigint, ended, serverVars>>

\* line 41: pool.getConnection() resolves before the 30 s timer
GetConnectionResolve(o) ==
    /\ Ready
    /\ cpc[o] = "getconn"
    /\ cpc' = [cpc EXCEPT ![o] = "ping"]
    /\ ev' = NoEvent
    /\ UNCHANGED <<env, sigint, ended, serverVars, cpool, running>>
    /\ UNCHANGED supervisorVars
    /\ UNCHANGED callerVars

\* lines 41-46: pool.getConnection() rejects before the 30 s timer
GetConnectionFail(o) ==
    /\ Ready
    /\ cpc[o] = "getconn"
    /\ Fail(o)
    /\ UNCHANGED <<env, sigint, ended, serverVars>>

\* lines 43-45: the 30 s timer rejects the race while getConnection() is
\* still pending; nothing cancels that getConnection()
ConnectionTimeout(o) ==
    /\ Ready
    /\ cpc[o] = "getconn"
    /\ FailWith(o, cpool[o])
    /\ UNCHANGED <<env, sigint, ended, serverVars>>

\* lines 49-58: the ping resolves; the pool is published and, when the
\* chain belongs to an executeQuery call, that call assigns the pool to db
\* again (line 80 or 90) and runs its statement on it (line 82 or 91)
PingResolve(o) ==
    /\ Ready
    /\ ProbeDone(o)
    /\ db' = cpool[o]
    /\ retryCount' = CountAfterSuccess
    /\ isConnecting' = FALSE
    /\ everConnected' = TRUE
    /\ cpc' = [cpc EXCEPT ![o] = "idle"]
    /\ cpool' = [cpool EXCEPT ![o] = NULL]
    /\ IF o \in Callers
       THEN /\ qpc' = [qpc EXCEPT ![o] = IF qpc[o] = "conn1" THEN "exec1"
                                                             ELSE "exec2"]
            /\ qpool' = [qpool EXCEPT ![o] = cpool[o]]
       ELSE UNCHANGED <<qpc, qpool>>
    /\ ev' = NoEvent
    /\ UNCHANGED <<env, sigint, ended, serverVars, exited, attempts, npools, running>>

\* line 49: the ping rejects
PingReject(o) ==
    /\ Ready
    /\ ProbeDone(o)
    /\ Fail(o)
    /\ UNCHANGED <<env, sigint, ended, serverVars>>

\* line 68: the retry timer fires and calls connectDB again; what that call
\* returns resolves the promise the owner is waiting on.  When line 26
\* returns undefined to an executeQuery call, the call assigns it to db and
\* fails reading db.execute
RetryTimer(o) ==
    /\ Ready
    /\ cpc[o] = "timer"
    /\ IF Guard
       THEN /\ cpc' = [cpc EXCEPT ![o] = "idle"]
            /\ IF o \in Callers
               THEN /\ db' = UNDEFINED
                    /\ qpc' = [qpc EXCEPT ![o] = "idle"]
                    /\ ev' = Ev(o, "noop", "none", "TypeError",
                                Executions(o), Requests(o))
               ELSE /\ ev' = Ev(o, "noop", "none", "none", 0, 0)
                    /\ UNCHANGED <<db, qpc>>
            /\ UNCHANGED <<isConnecting, retryCount, exited, attempts, npools,
                           everConnected, cpool, running>>
       ELSE /\ Enter(o)
            /\ ev' = Ev(o, "entered", "none", "none", 0, 0)
            /\ UNCHANGED <<db, qpc>>
    /\ UNCHANGED <<env, sigint, ended, serverVars, qpool>>

\* ---------------------------------------------- executeQuery, lines 77-95

\* lines 78-82: a caller starts a call
ExecuteQuery(c) ==
    /\ Ready
    /\ qpc[c] = "idle"
    /\ IF ~NoDb
       THEN /\ qpc' = [qpc EXCEPT ![c] = "exec1"]
            /\ qpool' = [qpool EXCEPT ![c] = db]
            /\ ev' = Ev(c, "none", "none", "none", 0, 0)
            /\ UNCHANGED supervisorVars
            /\ UNCHANGED chainVars
       ELSE IF Guard
       THEN /\ db' = UNDEFINED
            /\ ev' = Ev(c, "noop", "none", "TypeError", 0, 0)
            /\ UNCHANGED <<isConnecting, retryCount, exited, attempts, npools,
                           everConnected, cpc, cpool, running, qpc, qpool>>
       ELSE /\ Enter(c)
            /\ qpc' = [qpc EXCEPT ![c] = "conn1"]
            /\ ev' = Ev(c, "entered", "none", "none", 0, 0)
            /\ UNCHANGED <<db, qpool>>
    /\ UNCHANGED <<env, sigint, ended, serverVars>>

\* lines 82 and 91: the statement returns its rows
ExecuteResolve(c) ==
    /\ Ready
    /\ qpc[c] \in {"exec1", "exec2"}
    /\ qpc' = [qpc EXCEPT ![c] = "idle"]
    /\ qpool' = [qpool EXCEPT ![c] = NULL]
    /\ ev' = Ev(c, "none", "none", "rows", Executions(c), Requests(c))
    /\ UNCHANGED <<env, sigint, ended, serverVars>>
    /\ UNCHANGED supervisorVars
    /\ UNCHANGED chainVars

\* lines 83-94: the first execution rejects with `code`
ExecuteReject(c, code) ==
    /\ Ready
    /\ qpc[c] = "exec1"
    /\ qpool' = [qpool EXCEPT ![c] = NULL]
    /\ IF IsConnectionLost(code)
       THEN IF Guard
            THEN /\ db' = UNDEFINED
                 /\ qpc' = [qpc EXCEPT ![c] = "idle"]
                 /\ ev' = Ev(c, "noop", code, "TypeError", 1, 1)
                 /\ UNCHANGED <<isConnecting, retryCount, exited, attempts,
                                npools, everConnected, cpc, cpool, running>>
            ELSE /\ db' = NULL
                 /\ Enter(c)
                 /\ qpc' = [qpc EXCEPT ![c] = "conn2"]
                 /\ ev' = Ev(c, "entered", code, "none", 1, 1)
       ELSE /\ qpc' = [qpc EXCEPT ![c] = "idle"]
            /\ ev' = Ev(c, "none", code, "error", 1, 0)
            /\ UNCHANGED supervisorVars
            /\ UNCHANGED chainVars
    /\ UNCHANGED <<env, sigint, ended, serverVars>>

\* line 91: the re-run rejects; the error leaves the catch block
RetryReject(c, code) ==
    /\ Ready
    /\ qpc[c] = "exec2"
    /\ qpc' = [qpc EXCEPT ![c] = "idle"]
    /\ qpool' = [qpool EXCEPT ![c] = NULL]
    /\ ev' = Ev(c, "none", code, "error", 2, 1)
    /\ UNCHANGED <<env, sigint, ended, serverVars>>
    /\ UNCHANGED supervisorVars
    /\ UNCHANGED chainVars

\* ------------------------------------------------ SIGINT, lines 104-110

\* lines 104-108: the signal arrives; db.end() is called when db is set,
\* and otherwise line 109 exits at once
Sigint ==
    /\ Ready
    /\ sigint = "none"
    /\ IF ~NoDb
       THEN /\ sigint' = "ending"
            /\ ended' = db
       ELSE /\ sigint' = "exited"
            /\ UNCHANGED ended
    /\ ev' = NoEvent
    /\ UNCHANGED <<env, serverVars>>
    /\ UNCHANGED supervisorVars
    /\ UNCHANGED chainVars
    /\ UNCHANGED callerVars

\* line 109: db.end() has settled and the handler calls process.exit(0)
SigintExit ==
    /\ Ready
    /\ sigint = "ending"
    /\ sigint' = "exited"
    /\ ev' = NoEvent
    /\ UNCHANGED <<env, ended, serverVars>>
    /\ UNCHANGED supervisorVars
    /\ UNCHANGED chainVars
    /\ UNCHANGED callerVars

\* ------------------------------------------------------------ specification

Next ==
    \/ InitialConnect
    \/ \E o \in Owners : Validate(o)
    \/ \E o \in Owners : GetConnectionResolve(o)
    \/ \E o \in Owners : GetConnectionFail(o)
    \/ \E o \in Owners : ConnectionTimeout(o)
    \/ \E o \in Owners : PingResolve(o)
    \/ \E o \in Owners : PingReject(o)
    \/ \E o \in Owners : RetryTimer(o)
    \/ \E c \in Callers : ExecuteQuery(c)
    \/ \E c \in Callers : ExecuteResolve(c)
    \/ \E c \in Callers, code \in ErrorCodes : ExecuteReject(c, code)
    \/ \E c \in Callers, code \in ErrorCodes : RetryReject(c, code)

\* the process while no signal is delivered
Spec == Init /\ [][Next]_vars

\* the process with the SIGINT handler of lines 104-110
NextShutdown ==
    \/ Next
    \/ Sigint
    \/ SigintExit

SpecShutdown == Init /\ [][NextShutdown]_vars

TypeOK ==
    /\ env \subseteq RequiredEnv
    /\ db \in {NULL, UNDEFINED} \cup (1 .. MaxAttempts)
    /\ isConnecting \in BOOLEAN
    /\ retryCount \in 0 .. MAX_RETRIES
    /\ exited \in BOOLEAN
    /\ sigint \in {"none", "ending", "exited"}
    /\ ended \in 0 .. MaxAttempts
    /\ attempts \in 0 .. MaxAttempts
    /\ npools \in 0 .. MaxAttempts
    /\ everConnected \in BOOLEAN
    /\ cpc \in [Owners -> {"start", "idle", "entered", "getconn", "ping",
                           "timer"}]
    /\ cpool \in [Owners -> 0 .. MaxAttempts]
    /\ running \in {UNDEFINED} \cup Owners
    /\ qpc \in [Callers -> {"idle", "conn1", "exec1", "conn2", "exec2"}]
    /\ qpool \in [Callers -> 0 .. MaxAttempts]
    /\ ev.who \in {UNDEFINED} \cup Owners
    /\ ev.connect \in {"none", "noop", "entered"}
    /\ ev.err \in {"none"} \cup ErrorCodes
    /\ ev.outcome \in {"none", "rows", "error", "TypeError"}
    /\ ev.nexec \in 0 .. 2
    /\ ev.nreq \in 0 .. 1
    /\ ev.delay \in 0 .. CapDelay
    /\ ev.leak \in 0 .. MaxAttempts
    /\ ev.orphan \in 0 .. MaxAttempts
    /\ ev.read \in {UNDEFINED} \cup (0 .. MaxAttempts)
    /\ timers \in 0 .. (MaxTimers + MaxAttempts)
    /\ acts \subseteq [pool : 1 .. MaxAttempts, pc : {"getconn", "ping"},
                       by : {UNDEFINED} \cup Callers]
    /\ kpc \in {"idle", "getconn", "ping"}
    /\ kpool \in 0 .. MaxAttempts

\* ------------------------------------ src/app.js, lines 204-328 (server)
\*
\* The server file carries its own connectDB and executeQuery.  connectDB
\* has the guard on isConnecting and returns nothing; it retries through
\* setTimeout(connectDB, ...), which nobody awaits, so a caller that awaits
\* connectDB() goes on as soon as the attempt it started has ended.  Because
\* of the guard at most one element of acts exists.

\* lines 265 and 295: the codes that make the server file drop db
AppIsConnectionLost(code) == code \in {"PROTOCOL_CONNECTION_LOST", "ETIMEDOUT"}

\* an Ev record with its delay and leak fields set
Event(who, connect, err, outcome, n, r, delay, leak) ==
    [Ev(who, connect, err, outcome, n, r) EXCEPT !.delay = delay,
                                                 !.leak = leak]

\* the process is alive and line 305 has run
AppReady ==
    /\ ~exited
    /\ cpc[INIT] # "start"

\* line 237 lets a call made now go on to line 240
AppEnters == ~isConnecting

\* lines 240-252: a call made now goes on to createPool and getConnection
AppStarts == AppEnters /\ ~ConfigMissing

\* a connectDB call made now stays within the bound on attempts
AppMayCall == ~AppEnters \/ attempts < MaxServerAttempts

\* what line 237 answers to a call made now, for ev.connect
AppAnswer == IF AppEnters THEN "entered" ELSE "noop"

\* line 277: the delay of the timer the catch block schedules now, or 0
AppCatchDelay ==
    IF RetryAllowed(retryCount + 1) THEN RetryDelay(retryCount + 1) ELSE 0

\* the delay scheduled by a connectDB call made now, or 0
AppCallDelay == IF AppEnters /\ ConfigMissing THEN AppCatchDelay ELSE 0

\* lines 271-284: the catch block; t and a are the timers and the attempts
\* that the rest of the step leaves
AppCatch(t, a) ==
    /\ isConnecting' = FALSE
    /\ retryCount' = retryCount + 1
    /\ acts' = a
    /\ IF RetryAllowed(retryCount + 1)
       THEN /\ timers' = t + 1
            /\ exited' = exited
       ELSE /\ timers' = t
            /\ exited' = TRUE
    /\ UNCHANGED npools

\* lines 236-252: a call of connectDB made by `by` (a caller of
\* executeQuery that awaits it, or UNDEFINED) in a step that leaves t timers
AppConnectDB(by, t) ==
    IF ~AppEnters
    THEN /\ timers' = t
         /\ UNCHANGED <<isConnecting, retryCount, exited, acts, npools,
                        attempts>>
    ELSE /\ attempts' = attempts + 1
         /\ IF ConfigMissing
            THEN AppCatch(t, acts)
            ELSE /\ isConnecting' = TRUE
                 /\ npools' = npools + 1
                 /\ acts' = acts \cup {[pool |-> npools + 1, pc |-> "getconn",
                                        by |-> by]}
                 /\ timers' = t
                 /\ UNCHANGED <<retryCount, exited>>

\* lines 293 and 298: caller c goes on after await connectDB() and reads
\* db.query from d, the value of db; n and r are the queries and the
\* reconnects its call has made
AppQuery(c, d, n, r, connect, err, delay, leak) ==
    IF d = NULL \/ d = UNDEFINED
    THEN /\ qpc' = [qpc EXCEPT ![c] = "idle"]
         /\ qpool' = [qpool EXCEPT ![c] = NULL]
         /\ ev' = Event(c, connect, err, "TypeError", n, r, delay, leak)
    ELSE /\ qpc' = [qpc EXCEPT ![c] = IF r = 0 THEN "exec1" ELSE "exec2"]
         /\ qpool' = [qpool EXCEPT ![c] = d]
         /\ ev' = Event(c, connect, err, "none", n, r, delay, leak)

\* line 305: the call made when the file is loaded
AppInitialConnect ==
    /\ ~exited
    /\ cpc[INIT] = "start"
    /\ cpc' = [cpc EXCEPT ![INIT] = "idle"]
    /\ AppConnectDB(UNDEFINED, timers)
    /\ ev' = Event(INIT, AppAnswer, "none", "none", 0, 0, AppCallDelay, NULL)
    /\ UNCHANGED <<env, db, sigint, ended, everConnected, cpool, running,
                   qpc, qpool, kpc, kpool>>

\* line 252: getConnection resolves and line 253 sends the ping
AppGetConnectionResolve(a) ==
    /\ AppReady
    /\ a.pc = "getconn"
    /\ acts' = (acts \ {a}) \cup {[a EXCEPT !.pc = "ping"]}
    /\ ev' = NoEvent
    /\ UNCHANGED <<env, db, isConnecting, retryCount, exited, sigint, ended,
                   attempts, npools, everConnected, cpc, cpool, running,
                   qpc, qpool, timers, kpc, kpool>>

\* lines 271-284 after a rejected await of attempt a, and lines 291-293 or
\* 297-298 of the caller that awaits the attempt
AppAttemptFails(a, leak) ==
    /\ AppCatch(timers, acts \ {a})
    /\ IF a.by \in Callers
       THEN AppQuery(a.by, db, Executions(a.by), Requests(a.by), "none",
                     "none", AppCatchDelay, leak)
       ELSE /\ ev' = Event(UNDEFINED, "none", "none", "none", 0, 0,
                           AppCatchDelay, leak)
            /\ UNCHANGED <<qpc, qpool>>
    /\ UNCHANGED <<env, db, sigint, ended, attempts, everConnected, cpc,
                   cpool, running, kpc, kpool>>

\* line 252: getConnection rejects
AppGetConnectionReject(a) ==
    /\ AppReady
    /\ a.pc = "getconn"
    /\ AppAttemptFails(a, NULL)

\* line 253: the ping rejects; line 254 is skipped
AppPingReject(a) ==
    /\ AppReady
    /\ a.pc = "ping"
    /\ AppAttemptFails(a, a.pool)

\* lines 253-269: the ping resolves, the pool is published and its error
\* handler registered; the caller that awaits the attempt goes on
AppPingResolve(a) ==
    /\ AppReady
    /\ a.pc = "ping"
    /\ db' = a.pool
    /\ retryCount' = 0
    /\ isConnecting' = FALSE
    /\ everConnected' = TRUE
    /\ acts' = acts \ {a}
    /\ IF a.by \in Callers
       THEN AppQuery(a.by, a.pool, Executions(a.by), Requests(a.by), "none",
                     "none", 0, NULL)
       ELSE /\ ev' = NoEvent
            /\ UNCHANGED <<qpc, qpool>>
    /\ UNCHANGED <<env, exited, sigint, ended, attempts, npools, cpc, cpool,
                   running, timers, kpc, kpool>>

\* lines 267 and 279: a timer fires and calls connectDB
AppRetryTimer ==
    /\ AppReady
    /\ timers > 0
    /\ AppMayCall
    /\ AppConnectDB(UNDEFINED, timers - 1)
    /\ ev' = Event(UNDEFINED, AppAnswer, "none", "none", 0, 0, AppCallDelay,
                   NULL)
    /\ UNCHANGED <<env, db, sigint, ended, everConnected, cpc, cpool, running,
                   qpc, qpool, kpc, kpool>>

\* lines 263-269: the pool db references emits 'error' with `code`
AppPoolError(code) ==
    /\ AppReady
    /\ ~NoDb
    /\ timers < MaxTimers
    /\ IF AppIsConnectionLost(code)
       THEN /\ db' = NULL
            /\ timers' = timers + 1
       ELSE UNCHANGED <<db, timers>>
    /\ ev' = Event(UNDEFINED, "none", code, "none", 0, 0, 0, NULL)
    /\ UNCHANGED <<env, isConnecting, retryCount, exited, sigint, ended,
                   attempts, npools, everConnected, cpc, cpool, running,
                   qpc, qpool, acts, kpc, kpool>>

\* lines 308-313: some promise of the process is rejected and not handled
AppUnhandledRejection ==
    /\ AppReady
    /\ AppMayCall
    /\ AppConnectDB(UNDEFINED, timers)
    /\ ev' = Event(UNDEFINED, IF AppEnters THEN "entered" ELSE "none", "none",
                   "none", 0, 0, AppCallDelay, NULL)
    /\ UNCHANGED <<env, db, sigint, ended, everConnected, cpc, cpool, running,
                   qpc, qpool, kpc, kpool>>

\* lines 316-319: the interval fires while db is set and asks db for a handle
AppKeepAliveTick ==
    /\ AppReady
    /\ kpc = "idle"
    /\ ~NoDb
    /\ kpc' = "getconn"
    /\ kpool' = db
    /\ ev' = NoEvent
    /\ UNCHANGED <<env, db, isConnecting, retryCount, exited, sigint, ended,
                   attempts, npools, everConnected, cpc, cpool, running,
                   qpc, qpool, timers, acts>>

\* lines 319-320: the handle arrives and the ping is sent
AppKeepAliveGetConnection ==
    /\ AppReady
    /\ kpc = "getconn"
    /\ kpc' = "ping"
    /\ ev' = NoEvent
    /\ UNCHANGED <<env, db, isConnecting, retryCount, exited, sigint, ended,
                   attempts, npools, everConnected, cpc, cpool, running,
                   qpc, qpool, timers, acts, kpool>>

\* lines 320-322: the ping resolves and the handle is released
AppKeepAliveOk ==
    /\ AppReady
    /\ kpc = "ping"
    /\ kpc' = "idle"
    /\ kpool' = NULL
    /\ ev' = NoEvent
    /\ UNCHANGED <<env, db, isConnecting, retryCount, exited, sigint, ended,
                   attempts, npools, everConnected, cpc, cpool, running,
                   qpc, qpool, timers, acts>>

\* lines 324-327: getConnection or the ping rejects; connectDB is called and
\* db is left as it is
AppKeepAliveFail ==
    /\ AppReady
    /\ kpc \in {"getconn", "ping"}
    /\ AppMayCall
    /\ kpc' = "idle"
    /\ kpool' = NULL
    /\ AppConnectDB(UNDEFINED, timers)
    /\ ev' = Event(UNDEFINED, AppAnswer, "none", "none", 0, 0, AppCallDelay,
                   IF kpc = "ping" THEN kpool ELSE NULL)
    /\ UNCHANGED <<env, db, sigint, ended, everConnected, cpc, cpool, running,
                   qpc, qpool>>

\* lines 289-293: a caller starts a call
AppExecuteQuery(c) ==
    /\ AppReady
    /\ qpc[c] = "idle"
    /\ ~NoDb \/ AppMayCall
    /\ IF ~NoDb
       THEN /\ AppQuery(c, db, 0, 0, "none", "none", 0, NULL)
            /\ UNCHANGED <<isConnecting, retryCount, exited, attempts, npools,
                           timers, acts>>
       ELSE /\ AppConnectDB(c, timers)
            /\ IF AppStarts
               THEN /\ qpc' = [qpc EXCEPT ![c] = "conn1"]
                    /\ ev' = Ev(c, "entered", "none", "none", 0, 0)
                    /\ UNCHANGED qpool
               ELSE AppQuery(c, db, 0, 0, AppAnswer, "none", AppCallDelay,
                             NULL)
    /\ UNCHANGED <<env, db, sigint, ended, everConnected, cpc, cpool, running,
                   kpc, kpool>>

\* lines 293 and 298: the query returns its rows
AppExecuteResolve(c) ==
    /\ AppReady
    /\ qpc[c] \in {"exec1", "exec2"}
    /\ qpc' = [qpc EXCEPT ![c] = "idle"]
    /\ qpool' = [qpool EXCEPT ![c] = NULL]
    /\ ev' = Ev(c, "none", "none", "rows", Executions(c), Requests(c))
    /\ UNCHANGED <<env, db, isConnecting, retryCount, exited, sigint, ended,
                   attempts, npools, everConnected, cpc, cpool, running,
                   timers, acts, kpc, kpool>>

\* lines 294-300: the first query rejects with `code`
AppExecuteReject(c, code) ==
    /\ AppReady
    /\ qpc[c] = "exec1"
    /\ AppIsConnectionLost(code) => AppMayCall
    /\ IF AppIsConnectionLost(code)
       THEN /\ db' = NULL
            /\ AppConnectDB(c, timers)
            /\ IF AppStarts
               THEN /\ qpc' = [qpc EXCEPT ![c] = "conn2"]
                    /\ qpool' = [qpool EXCEPT ![c] = NULL]
                    /\ ev' = Ev(c, "entered", code, "none", 1, 1)
               ELSE AppQuery(c, NULL, 1, 1, AppAnswer, code, AppCallDelay,
                             NULL)
       ELSE /\ qpc' = [qpc EXCEPT ![c] = "idle"]
            /\ qpool' = [qpool EXCEPT ![c] = NULL]
            /\ ev' = Ev(c, "none", code, "error", 1, 0)
            /\ UNCHANGED <<db, isConnecting, retryCount, exited, attempts,
                           npools, timers, acts>>
    /\ UNCHANGED <<env, sigint, ended, everConnected, cpc, cpool, running,
                   kpc, kpool>>

\* line 298: the second query rejects; the error leaves the catch block
AppRetryReject(c, code) ==
    /\ AppReady
    /\ qpc[c] = "exec2"
    /\ qpc' = [qpc EXCEPT ![c] = "idle"]
    /\ qpool' = [qpool EXCEPT ![c] = NULL]
    /\ ev' = Ev(c, "none", code, "error", 2, 1)
    /\ UNCHANGED <<env, db, isConnecting, retryCount, exited, sigint, ended,
                   attempts, npools, everConnected, cpc, cpool, running,
                   timers, acts, kpc, kpool>>

NextApp ==
    \/ AppInitialConnect
    \/ \E a \in acts : AppGetConnectionResolve(a)
    \/ \E a \in acts : AppGetConnectionReject(a)
    \/ \E a \in acts : AppPingResolve(a)
    \/ \E a \in acts : AppPingReject(a)
    \/ AppRetryTimer
    \/ \E code \in ErrorCodes : AppPoolError(code)
    \/ AppUnhandledRejection
    \/ AppKeepAliveTick
    \/ AppKeepAliveGetConnection
    \/ AppKeepAliveOk
    \/ AppKeepAliveFail
    \/ \E c \in Callers : AppExecuteQuery(c)
    \/ \E c \in Callers : AppExecuteResolve(c)
    \/ \E c \in Callers, code \in ErrorCodes : AppExecuteReject(c, code)
    \/ \E c \in Callers, code \in ErrorCodes : AppRetryReject(c, code)

SpecApp == Init /\ [][NextApp]_vars

\* ------------------------------- src/unnamed/part_002, lines 32-97 (server)
\*
\* This server file has no isConnecting: connectDB has no guard, stores the
\* pool in db as soon as it is created (line 43) and never exits the
\* process.  Its attempts are the elements of acts.

\* line 62: retryCount < MAX_RETRIES, on the incremented counter
P2RetryAllowed(n) == n < P2_MAX_RETRIES

\* line 73 has run
P2Ready == cpc[INIT] # "start"

\* the retry chains of the file: its pending timers and its attempts
P2Chains == timers + Cardinality(acts)

\* a retry timer that fires now stays within the bound on attempts
P2MayFire == attempts < MaxP2Attempts

\* a connectDB call made now by a handler stays within the bounds on
\* attempts and on retry chains
P2MayCall == P2MayFire /\ P2Chains < MaxInFlight

\* line 63: the delay of the timer scheduled after the failure that makes
\* retryCount n, or 0
P2CatchDelay(n) == IF P2RetryAllowed(n) THEN RetryDelay(n) ELSE 0

\* lines 58-69: the catch block, entered with retryCount n; t and a are the
\* timers and the attempts that the rest of the step leaves
P2Catch(n, t, a) ==
    /\ retryCount' = n + 1
    /\ acts' = a
    /\ timers' = IF P2RetryAllowed(n + 1) THEN t + 1 ELSE t

\* lines 36-51: a call of connectDB made with retryCount n in a step that
\* leaves t timers
P2ConnectDB(n, t) ==
    /\ attempts' = attempts + 1
    /\ IF ConfigMissing
       THEN /\ P2Catch(n, t, acts)
            /\ UNCHANGED <<db, npools>>
       ELSE /\ db' = npools + 1
            /\ npools' = npools + 1
            /\ acts' = acts \cup {[pool |-> npools + 1, pc |-> "getconn",
                                   by |-> UNDEFINED]}
            /\ timers' = t
            /\ retryCount' = n

\* the delay scheduled by a connectDB call made now with retryCount n, or 0
P2CallDelay(n) == IF ConfigMissing THEN P2CatchDelay(n + 1) ELSE 0

\* line 73: the call made when the file is loaded
P2InitialConnect ==
    /\ cpc[INIT] = "start"
    /\ cpc' = [cpc EXCEPT ![INIT] = "idle"]
    /\ P2ConnectDB(retryCount, timers)
    /\ ev' = Event(INIT, "entered", "none", "none", 0, 0,
                   P2CallDelay(retryCount), NULL)
    /\ UNCHANGED <<env, isConnecting, exited, sigint, ended, everConnected,
                   cpool, running, qpc, qpool, kpc, kpool>>

\* lines 46-53: getConnection wins the race and line 53 sends the ping
P2GetConnectionResolve(a) ==
    /\ P2Ready
    /\ a.pc = "getconn"
    /\ acts' = (acts \ {a}) \cup {[a EXCEPT !.pc = "ping"]}
    /\ ev' = NoEvent
    /\ UNCHANGED <<env, db, isConnecting, retryCount, exited, sigint, ended,
                   attempts, npools, everConnected, cpc, cpool, running,
                   qpc, qpool, timers, kpc, kpool>>

\* lines 58-69 after a rejected await of attempt a
P2AttemptFails(a, leak, orphan) ==
    /\ P2Catch(retryCount, timers, acts \ {a})
    /\ ev' = [Event(UNDEFINED, "none", "none", "none", 0, 0,
                    P2CatchDelay(retryCount + 1), leak)
                EXCEPT !.orphan = orphan]
    /\ UNCHANGED <<env, db, isConnecting, exited, sigint, ended, attempts,
                   npools, everConnected, cpc, cpool, running, qpc, qpool,
                   kpc, kpool>>

\* line 47: getConnection rejects
P2GetConnectionReject(a) ==
    /\ P2Ready
    /\ a.pc = "getconn"
    /\ P2AttemptFails(a, NULL, NULL)

\* lines 48-50: the 30 s timer rejects first
P2ConnectionTimeout(a) ==
    /\ P2Ready
    /\ a.pc = "getconn"
    /\ P2AttemptFails(a, NULL, a.pool)

\* line 53: the ping rejects; line 54 is skipped
P2PingReject(a) ==
    /\ P2Ready
    /\ a.pc = "ping"
    /\ P2AttemptFails(a, a.pool, NULL)

\* lines 53-57: the ping resolves; db was set at line 43
P2PingResolve(a) ==
    /\ P2Ready
    /\ a.pc = "ping"
    /\ retryCount' = 0
    /\ everConnected' = TRUE
    /\ acts' = acts \ {a}
    /\ ev' = NoEvent
    /\ UNCHANGED <<env, db, isConnecting, exited, sigint, ended, attempts,
                   npools, cpc, cpool, running, qpc, qpool, timers, kpc,
                   kpool>>

\* line 65: a retry timer fires and calls connectDB
P2RetryTimer ==
    /\ P2Ready
    /\ timers > 0
    /\ P2MayFire
    /\ P2ConnectDB(retryCount, timers - 1)
    /\ ev' = Event(UNDEFINED, "entered", "none", "none", 0, 0,
                   P2CallDelay(retryCount), NULL)
    /\ UNCHANGED <<env, isConnecting, exited, sigint, ended, everConnected,
                   cpc, cpool, running, qpc, qpool, kpc, kpool>>

\* lines 76-83: some promise of the process is rejected and not handled
\* while db is set
P2UnhandledRejection ==
    /\ P2Ready
    /\ ~NoDb
    /\ P2MayCall
    /\ P2ConnectDB(0, timers)
    /\ ev' = Event(UNDEFINED, "entered", "none", "none", 0, 0,
                   P2CallDelay(0), NULL)
    /\ UNCHANGED <<env, isConnecting, exited, sigint, ended, everConnected,
                   cpc, cpool, running, qpc, qpool, kpc, kpool>>

\* lines 86-89: the interval fires while db is set and asks db for a handle
P2KeepAliveTick ==
    /\ P2Ready
    /\ kpc = "idle"
    /\ ~NoDb
    /\ kpc' = "getconn"
    /\ kpool' = db
    /\ ev' = NoEvent
    /\ UNCHANGED <<env, db, isConnecting, retryCount, exited, sigint, ended,
                   attempts, npools, everConnected, cpc, cpool, running,
                   qpc, qpool, timers, acts>>

\* lines 89-90: the handle arrives and the ping is sent
P2KeepAliveGetConnection ==
    /\ P2Ready
    /\ kpc = "getconn"
    /\ kpc' = "ping"
    /\ ev' = NoEvent
    /\ UNCHANGED <<env, db, isConnecting, retryCount, exited, sigint, ended,
                   attempts, npools, everConnected, cpc, cpool, running,
                   qpc, qpool, timers, acts, kpool>>

\* lines 90-91: the ping resolves and the handle is released
P2KeepAliveOk ==
    /\ P2Ready
    /\ kpc = "ping"
    /\ kpc' = "idle"
    /\ kpool' = NULL
    /\ ev' = NoEvent
    /\ UNCHANGED <<env, db, isConnecting, retryCount, exited, sigint, ended,
                   attempts, npools, everConnected, cpc, cpool, running,
                   qpc, qpool, timers, acts>>

\* lines 93-96: getConnection or the ping rejects and connectDB is called
P2KeepAliveFail ==
    /\ P2Ready
    /\ kpc \in {"getconn", "ping"}
    /\ P2MayCall
    /\ kpc' = "idle"
    /\ kpool' = NULL
    /\ P2ConnectDB(retryCount, timers)
    /\ ev' = Event(UNDEFINED, "entered", "none", "none", 0, 0,
                   P2CallDelay(retryCount),
                   IF kpc = "ping" THEN kpool ELSE NULL)
    /\ UNCHANGED <<env, isConnecting, exited, sigint, ended, everConnected,
                   cpc, cpool, running, qpc, qpool>>

\* lines 112-115: a request handler reads db and calls db.query on it; a
\* TypeError, like a rejected query, is answered with status 500 (lines
\* 121-124) and changes nothing
P2Handler(c) ==
    /\ P2Ready
    /\ ev' = [Ev(c, "none", "none", IF NoDb THEN "TypeError" ELSE "none",
                 0, 0) EXCEPT !.read = db]
    /\ UNCHANGED <<env, db, isConnecting, retryCount, exited, sigint, ended,
                   attempts, npools, everConnected, cpc, cpool, running,
                   qpc, qpool, timers, acts, kpc, kpool>>

NextP2 ==
    \/ P2InitialConnect
    \/ \E a \in acts : P2GetConnectionResolve(a)
    \/ \E a \in acts : P2GetConnectionReject(a)
    \/ \E a \in acts : P2ConnectionTimeout(a)
    \/ \E a \in acts : P2PingResolve(a)
    \/ \E a \in acts : P2PingReject(a)
    \/ P2RetryTimer
    \/ P2UnhandledRejection
    \/ P2KeepAliveTick
    \/ P2KeepAliveGetConnection
    \/ P2KeepAliveOk
    \/ P2KeepAliveFail
    \/ \E c \in Callers : P2Handler(c)

SpecP2 == Init /\ [][NextP2]_vars

\* ------------------------------------------------------------------ claims

LossCodes == {"PROTOCOL_CONNECTION_LOST", "ETIMEDOUT", "ECONNRESET"}
SomeFieldMissing == RequiredEnv \ env # {}
IsPool(x) == x # NULL /\ x # UNDEFINED
Probing == {o \in Owners : cpc[o] \in {"getconn", "ping"}}

C2_BackoffRequestIsNoop ==
    [][~SomeFieldMissing =>
         /\ Cardinality(Timers') <= 1
         /\ \A c \in Callers :
              (Timers # {} /\ cpc[c] # "timer"
                  /\ ev'.who = c /\ ev'.connect # "none")
              => /\ attempts' = attempts
                 /\ retryCount' = retryCount
                 /\ Timers' = Timers]_vars

\* C3 (as claimed): a call whose first execution failed with a
\* connection-loss code (the only calls whose catch block calls connectDB)
\* has, when it ends, requested one reconnect and executed the statement
\* exactly twice.
C3_OneReconnectOneRerun ==
    (ev.outcome # "none" /\ ev.nreq = 1) => ev.nexec = 2

\* C4: when an execution rejects with a code that is not a connection-loss
\* code, the call ends in that step with that error, the statement is not
\* run again, connectDB is not called and db, isConnecting, retryCount and
\* the supervisor's attempts are unchanged.
C4_OtherErrorRethrown ==
    [][\A c \in Callers :
         (qpc[c] \in {"exec1", "exec2"} /\ ev'.who = c
             /\ ev'.err \in ErrorCodes \ LossCodes)
         => /\ ev'.outcome = "error"
            /\ qpc'[c] = "idle"
            /\ ev'.nexec = Executions(c)
            /\ ev'.nreq = Requests(c)
            /\ ev'.connect = "none"
            /\ db' = db
            /\ isConnecting' = isConnecting
            /\ retryCount' = retryCount
            /\ attempts' = attempts
            /\ cpc' = cpc]_vars

\* the first execution of a call on a published pool was rejected with
\* another error, which the call threw
C4_Witness ==
    /\ ev.err = "ER_OTHER"
    /\ ev.outcome = "error"
    /\ ev.nexec = 1
    /\ IsPool(db)

\* C5 (as claimed): once an attempt has succeeded, the process never exits.
C5_NoExitAfterSuccess == everConnected => ~exited

\* C6: during initial bring-up (no attempt has succeeded) the attempts
\* never number more than MAX_RETRIES, the process has exited exactly when
\* retryCount has reached MAX_RETRIES, and it exits after exactly
\* MAX_RETRIES attempts with none in flight.
C6_BringUpCeiling ==
    ~everConnected =>
        /\ attempts <= MAX_RETRIES
        /\ exited <=> retryCount >= MAX_RETRIES
        /\ exited => (attempts = MAX_RETRIES /\ InFlight = {})

\* the process exited after MAX_RETRIES probes failed, with both callers
\* waiting on connectDB
C6_Witness ==
    /\ exited
    /\ ~everConnected
    /\ npools = MAX_RETRIES
    /\ \A c \in Callers : qpc[c] = "conn1"

\* C7 (as claimed): with a required field missing, a connectDB call that
\* has run ends in Failed, with retryCount not incremented and no timer.
C7_ConfigErrorIsFatal ==
    (SomeFieldMissing /\ attempts >= 1 /\ InFlight = {})
        => (exited /\ retryCount = 0 /\ Timers = {})

\* C8 (as claimed): with a required field missing, no pool is created, no
\* probe is made and isConnecting is never true.
C8_NeverConnecting ==
    SomeFieldMissing => (npools = 0 /\ Probing = {} /\ ~isConnecting)

\* C8 (amended): with a required field missing, no pool is created and no
\* probe is made; isConnecting is true only inside the callback that is
\* between line 29 and the catch block, so no other callback sees it true.
C8_NoPoolNoProbe ==
    SomeFieldMissing =>
        /\ npools = 0
        /\ Probing = {}
        /\ db \in {NULL, UNDEFINED}
        /\ isConnecting => running # UNDEFINED

\* a connectDB call has run and failed on a configuration without the
\* password
C8_Witness ==
    /\ "MYSQLPASSWORD" \notin env
    /\ RequiredEnv \ env = {"MYSQLPASSWORD"}
    /\ retryCount >= 1
    /\ ~isConnecting

\* C9 (as claimed): a call that found no pool never ends by reading
\* db.execute from undefined before it has run its statement.
C9_WaitsForSupervisor == ~(ev.outcome = "TypeError" /\ ev.nexec = 0)

\* C10 (as claimed): db changes only when an attempt of connectDB succeeds
\* and publishes the pool it probed.
C10_OnlySupervisorSetsDb ==
    [][db' # db => \E o \in Owners : cpc[o] = "ping" /\ db' = cpool[o]]_vars

InFlightStates == {"entered", "getconn", "ping"}
Completes(o) == cpc[o] \in InFlightStates /\ cpc'[o] \notin InFlightStates
Succeeds(o) == Completes(o) /\ IsPool(cpool[o]) /\ db' = cpool[o]
Fails(o) == Completes(o) /\ ~Succeeds(o)

\* C11: db becomes a pool only in the step in which that pool's ping has
\* resolved, and that step also sets retryCount to 0 and ends the attempt;
\* the pool db references is never one still under probe.
C11_PublishAfterProbe ==
    [][/\ (db' # db /\ IsPool(db'))
            => \E o \in Owners :
                 /\ cpc[o] = "ping"
                 /\ cpool[o] = db'
                 /\ cpc'[o] = "idle"
                 /\ retryCount' = 0
                 /\ isConnecting' = FALSE
       /\ IsPool(db') => \A o \in Owners : cpool'[o] # db']_vars

\* db references the previous pool while a newer pool is being probed
C11_Witness ==
    /\ IsPool(db)
    /\ retryCount = 0
    /\ \E o \in Owners : cpc[o] = "ping" /\ cpool[o] > db

\* C12 (as claimed): a call whose execution was hit by the drop (it
\* rejected with a connection-loss code and the call asked for a reconnect)
\* ends with its rows or with a database error, never otherwise.
C12_InFlightCallSurvivesDrop ==
    (ev.nreq = 1 /\ ev.outcome # "none") => ev.outcome \in {"rows", "error"}

\* C13 (as claimed): the connections that run a statement at the same
\* instant, counted over all the pools of the process, never number more
\* than connectionLimit.
C13_ProcessWideLimit == LiveConnections <= connectionLimit

\* C14 (as claimed): the delay scheduled after a failed attempt is
\* min(1000 * 2^n, 30000), n being the failures since the last success
\* before this one.
C14_DelayFromExponentZero ==
    [][(retryCount' = retryCount + 1 /\ ev'.delay # 0)
         => ev'.delay = MathMin(1000 * 2 ^ retryCount, 30000)]_vars

\* C14 (amended): the delay scheduled after a failed attempt is
\* min(1000 * 2^(n+1), 30000); it is at least the delay of the failure
\* before it in the streak and at most the cap, and a timer is scheduled
\* exactly when the process does not exit.
C14_DelayFromExponentOne ==
    [][retryCount' = retryCount + 1
         => /\ (ev'.delay # 0) <=> ~exited'
            /\ ev'.delay # 0
                 => /\ ev'.delay = MathMin(1000 * 2 ^ (retryCount + 1), 30000)
                    /\ ev'.delay <= 30000
                    /\ retryCount >= 1
                         => ev'.delay >= MathMin(1000 * 2 ^ retryCount, 30000)
       ]_vars

\* the fourth failure in a row has scheduled the longest delay
C14_Witness == ev.delay = 16000 /\ retryCount = 4 /\ Timers # {}

\* C15: retryCount goes up by exactly one in a step in which an attempt
\* fails, becomes 0 in a step in which an attempt succeeds, changes in no
\* other step and never exceeds MAX_RETRIES.
C15_RetryCountCounts ==
    [][/\ (\E o \in Owners : Fails(o)) => retryCount' = retryCount + 1
       /\ (\E o \in Owners : Succeeds(o)) => retryCount' = 0
       /\ (\A o \in Owners : ~Completes(o)) => retryCount' = retryCount
       /\ retryCount' <= MAX_RETRIES]_vars

\* three attempts have failed since a success
C15_Witness == everConnected /\ retryCount = 3 /\ NoDb

\* C16 (as claimed): in every wait of an attempt (for the probe handle and
\* for the ping) a timer is pending that ends the attempt.
C16_EveryWaitTimeBounded ==
    \A o \in Owners : cpc[o] \in {"getconn", "ping"}
                        => ENABLED ConnectionTimeout(o)

\* C17 (as claimed): when the SIGINT handler has exited the process, every
\* pool that was created has been closed.
C17_AllPoolsClosedAtExit ==
    sigint = "exited" => \A p \in 1 .. npools : p = ended

\* C19 (as claimed): no step leaves a probe handle checked out.
C19_ProbeHandleReleased == ev.leak = NULL

\* C18 (as claimed): the step in which the periodic ping of src/app.js
\* fails (lines 324-327) withdraws the pool it pinged from db, as the
\* operational loss of lines 295-296 and the pool error of lines 265-266 do.
C18_FailedPingWithdrawsPool ==
    [][(kpc # "idle" /\ kpc' = "idle" /\ ev'.connect # "none")
         => db' # kpool]_vars

\* C20 (as claimed): in src/unnamed/part_002 at no instant are two
\* connectDB attempts in flight.
C20_TriggersCollapse == Cardinality(acts) <= 1

\* C21 (as claimed): in src/unnamed/part_002 retryCount never exceeds
\* MAX_RETRIES, and once it has reached MAX_RETRIES with no attempt ever
\* successful, no step starts a connection attempt.
C21_TerminalFailed ==
    [][/\ retryCount' <= P2_MAX_RETRIES
       /\ (~everConnected /\ retryCount >= P2_MAX_RETRIES)
            => attempts' = attempts]_vars

\* C22 (as claimed): in src/unnamed/part_002 the pool a request handler
\* reads from db is never one whose probe is still under way.
C22_HandlersSeeProbedPools ==
    IsPool(ev.read) => \A a \in acts : a.pool # ev.read

\* C23 (as claimed): while db references a pool, a step starts a connection
\* attempt only if it is the step in which a statement on that pool
\* rejected with a connection-loss code.
C23_AttemptsOnlyWhenBroken ==
    [][(IsPool(db) /\ attempts' = attempts + 1)
         => ev'.err \in LossCodes]_vars

\* the pools created at line 38 on which end() was never called
OpenPools == {p \in 1 .. npools : p # ended}

\* C24 (as claimed): the pools created and not closed are at most the pool
\* db references and the pool under probe.
C24_PoolsDoNotAccumulate ==
    Cardinality(OpenPools)
        <= (IF IsPool(db) THEN 1 ELSE 0) + Cardinality(Probing)

\* C25: isConnecting is true exactly while an attempt is between line 29
\* and its completion, there is at most one such attempt, and every step
\* that completes an attempt (success, failure with a retry timer, failure
\* at the ceiling) leaves isConnecting false.
C25_FlagTracksAttempt ==
    [][/\ isConnecting' <=> InFlight' # {}
       /\ Cardinality(InFlight') <= 1
       /\ (\E o \in Owners : Completes(o)) => ~isConnecting']_vars

\* the attempt that hit the retry ceiling has reset the flag before exiting
C25_Witness == exited /\ ~isConnecting /\ retryCount = MAX_RETRIES

\* C26 (as claimed): the connectDB chain of an owner that started an attempt
\* settles, while the process lives, only in a step that leaves a pool in
\* db and in which line 26 did not answer.
C26_ChainResolvesWithPool ==
    [][\A o \in Owners :
         (/\ cpc[o] \in {"entered", "getconn", "ping", "timer"}
          /\ cpc'[o] = "idle"
          /\ ~exited')
            => IsPool(db') /\ ev'.connect # "noop"]_vars

====
